---- MODULE Spec2Model ----
(***************************************************************************)
(* Model of src/src/main.py: the price normalisation of fetch_prices, the  *)
(* rolling averages of add_indicators, the trend score of score_row and    *)
(* score_from_df, and the per-ticker loop of main.                         *)
(*                                                                         *)
(* Numbers.  Prices are positive whole numbers of price ticks.  The price  *)
(* histories fed to add_indicators have closes that are multiples of 200   *)
(* ticks, so every full-window mean is a whole number and is held exactly. *)
(* Floating-point rounding is not modelled.                                *)
(***************************************************************************)
EXTENDS Integers, Sequences, FiniteSets, TLC

VARIABLES
    pc,           \* position of the process: see each specification
    call,         \* arguments of the function under test (function specifications)
    result,       \* its return value (function specifications)
    tickers,      \* cfg["tickers"]
    idx,          \* number of tickers the for-loop of main has finished
    df,           \* the local df of main: the frame of the last fetched ticker
    latest_rows,  \* main: latest_rows
    score_rows,   \* main: score_rows
    warns,        \* the [WARN] lines printed, as <<ticker, reason>>
    artifacts     \* the files written under docs_dir

vars == <<pc, call, result, tickers, idx, df, latest_rows, score_rows, warns, artifacts>>

mainVars == <<tickers, idx, df, latest_rows, score_rows, warns, artifacts>>

(***************************************************************************)
(* Missing values                                                          *)
(***************************************************************************)

\* float("nan"): the missing value of a column.  Prices and means are
\* positive, so no computed value equals it.
NaN == -1

\* Python None, in the rows written for the reports.
None == -2

notna(x) == x # NaN

\* Faulty variant of Gt: the comparison written >=.
Ge(a, b) == notna(a) /\ notna(b) /\ a >= b

\* Python's > on floats: false when either side is NaN.
Gt(a, b) == notna(a) /\ notna(b) /\ a > b

\* The value a function specification holds before its function returns.
Pending == [pending |-> TRUE]

\* The two ways a function that may raise ends: "raise ValueError(msg)" and
\* "return value".
Raise(msg) == [raised |-> TRUE, msg |-> msg]

Return(value) == [raised |-> FALSE, value |-> value]

(***************************************************************************)
(* score_row                                                               *)
(***************************************************************************)

\* Faulty variant of Rule1: the pd.notna guard left out, so that a missing
\* sma20 compares false and is scored as the negative branch.
Rule1_unguarded(close, sma20) == IF Gt(close, sma20) THEN 2 ELSE -2

\* 1) Price vs SMA20
Rule1(close, sma20) ==
    IF notna(sma20) THEN (IF Gt(close, sma20) THEN 2 ELSE -2) ELSE 0

\* 2) SMA20 vs SMA50
Rule2(sma20, sma50) ==
    IF notna(sma20) /\ notna(sma50) THEN (IF Gt(sma20, sma50) THEN 2 ELSE -2) ELSE 0

\* 3) SMA50 vs SMA200
Rule3(sma50, sma200) ==
    IF notna(sma50) /\ notna(sma200) THEN (IF Gt(sma50, sma200) THEN 4 ELSE -4) ELSE 0

\* 4) Slope of SMA50 over last 5 days
Rule4(sma50, sma50_prev5) ==
    IF notna(sma50) /\ notna(sma50_prev5)
    THEN (IF Gt(sma50, sma50_prev5) THEN 4 ELSE -4)
    ELSE 0

\* dist = (close - sma200) / sma200, kept as the fraction num/den.
Dist(close, sma200) == [num |-> close - sma200, den |-> sma200]

\* Faulty variant of DistGe10: the bound taken as exclusive.
DistGt10(d) == 10 * d.num > d.den

\* dist >= 0.10 and dist <= -0.10 for a fraction with den > 0 (sma200 is a
\* mean of positive prices).
DistGe10(d) == 10 * d.num >= d.den

DistLeMinus10(d) == 10 * d.num <= 0 - d.den

\* 5) Distance from SMA200
Rule5(close, sma200) ==
    IF notna(sma200)
    THEN LET dist == Dist(close, sma200)
         IN  IF DistGe10(dist) THEN 8
             ELSE IF DistLeMinus10(dist) THEN -8
             ELSE 0
    ELSE 0

Min2(a, b) == IF a < b THEN a ELSE b

Max2(a, b) == IF a > b THEN a ELSE b

\* int(max(-20, min(20, score)))
Clamp(score) == Max2(-20, Min2(20, score))

\* Faulty variant of score_row: the distance rule weighted 18 for 8 and the sum
\* returned without the clamp.
score_row_unclamped(close, sma20, sma50, sma200, sma50_prev5) ==
    Rule1(close, sma20) + Rule2(sma20, sma50) + Rule3(sma50, sma200)
    + Rule4(sma50, sma50_prev5) + Rule5(close, sma200)
    + (IF Rule5(close, sma200) > 0 THEN 10 ELSE IF Rule5(close, sma200) < 0 THEN -10 ELSE 0)

score_row(close, sma20, sma50, sma200, sma50_prev5) ==
    Clamp(Rule1(close, sma20) + Rule2(sma20, sma50) + Rule3(sma50, sma200)
          + Rule4(sma50, sma50_prev5) + Rule5(close, sma200))

(***************************************************************************)
(* Specification of score_row as a function: every argument tuple over a   *)
(* small set of prices, each average present or missing.                   *)
(***************************************************************************)

\* Prices that give ties, distances of exactly +10% and -10%, distances
\* inside the dead zone, and the two scenarios of the specification.
ScoreVals == {90, 95, 100, 101, 103, 105, 108, 110}

OptScoreVals == ScoreVals \cup {NaN}

IdleMain ==
    /\ tickers = <<>>
    /\ idx = 0
    /\ df = <<>>
    /\ latest_rows = <<>>
    /\ score_rows = <<>>
    /\ warns = <<>>
    /\ artifacts = {}

InitScoreRow ==
    /\ pc = "called"
    /\ call \in [close : ScoreVals, sma20 : OptScoreVals, sma50 : OptScoreVals,
                 sma200 : OptScoreVals, sma50_prev5 : OptScoreVals]
    /\ result = Pending
    /\ IdleMain

CallScoreRow ==
    /\ pc = "called"
    /\ result' = score_row(call.close, call.sma20, call.sma50, call.sma200,
                           call.sma50_prev5)
    /\ pc' = "returned"
    /\ UNCHANGED <<call, mainVars>>

SpecScoreRow == InitScoreRow /\ [][CallScoreRow]_vars

Present(x) == x # NaN

\* C1: whatever the close and whichever of the four averages are present
\* or missing, score_row returns an integer between -20 and 20.
C1_ScoreInRange == pc = "returned" => result \in -20..20

\* C1 witness: a call with every average present that returns the lower end.
C1_Witness ==
    /\ pc = "returned"
    /\ \A f \in {"sma20", "sma50", "sma200", "sma50_prev5"} : Present(call[f])
    /\ result = -20

\* What C2 says a comparison rule with its inputs present contributes: the
\* positive weight when left is strictly greater than right, the negative
\* weight in every other case.
C2_Contribution(left, right, weight) == IF left > right THEN weight ELSE 0 - weight

\* C2: in the score returned, each of rules 1-4 whose inputs are present
\* counts +weight exactly when its left value is strictly greater than its
\* right value and -weight otherwise, a tie included; it never counts 0.
C2_StrictComparisons ==
    pc = "returned" =>
        LET a  == call
            r1 == IF Present(a.sma20)
                  THEN C2_Contribution(a.close, a.sma20, 2)
                  ELSE Rule1(a.close, a.sma20)
            r2 == IF Present(a.sma20) /\ Present(a.sma50)
                  THEN C2_Contribution(a.sma20, a.sma50, 2)
                  ELSE Rule2(a.sma20, a.sma50)
            r3 == IF Present(a.sma50) /\ Present(a.sma200)
                  THEN C2_Contribution(a.sma50, a.sma200, 4)
                  ELSE Rule3(a.sma50, a.sma200)
            r4 == IF Present(a.sma50) /\ Present(a.sma50_prev5)
                  THEN C2_Contribution(a.sma50, a.sma50_prev5, 4)
                  ELSE Rule4(a.sma50, a.sma50_prev5)
        IN  result = r1 + r2 + r3 + r4 + Rule5(a.close, a.sma200)

\* C2 witness: every average present and all four comparisons tied; the
\* score is -2 - 2 - 4 - 4 with nothing from the distance rule.
C2_Witness ==
    /\ pc = "returned"
    /\ call.close = call.sma20
    /\ call.sma20 = call.sma50
    /\ call.sma50 = call.sma200
    /\ call.sma50 = call.sma50_prev5
    /\ Present(call.sma20)
    /\ result = -12

ScenarioA == [close |-> 110, sma20 |-> 108, sma50 |-> 105, sma200 |-> 100,
              sma50_prev5 |-> 103]

ScenarioB == [close |-> 90, sma20 |-> 95, sma50 |-> 100, sma200 |-> 110,
              sma50_prev5 |-> 101]

\* What C3 says rule 5 contributes for a present, positive sma200: +8 when
\* close is at least 10% above it, -8 when at least 10% below, else 0.
C3_Distance(close, sma200) ==
    IF 10 * (close - sma200) >= sma200 THEN 8
    ELSE IF 10 * (sma200 - close) >= sma200 THEN -8
    ELSE 0

\* C3: with sma200 present, what the score holds beyond rules 1-4 is +8
\* exactly when the distance is >= 10%, -8 exactly when it is <= -10% and 0
\* when it is strictly between; scenario A scores 20 and scenario B -20.
C3_DistanceRule ==
    pc = "returned" =>
        LET a == call
            others == Rule1(a.close, a.sma20) + Rule2(a.sma20, a.sma50)
                      + Rule3(a.sma50, a.sma200) + Rule4(a.sma50, a.sma50_prev5)
        IN  /\ Present(a.sma200) => result - others = C3_Distance(a.close, a.sma200)
            /\ a = ScenarioA => result = 20
            /\ a = ScenarioB => result = -20

\* C3 witness: scenario A, whose distance is exactly 10%, has returned 20.
C3_Witness == pc = "returned" /\ call = ScenarioA /\ result = 20

\* C4: a rule counts only when all its inputs are present; a rule with a
\* missing input counts 0, never a penalty, so the score is the sum of the
\* rules whose inputs are present and is 0 when all four averages are
\* missing.
C4_AbsentContributesZero ==
    pc = "returned" =>
        LET a  == call
            r1 == IF Present(a.sma20) THEN Rule1(a.close, a.sma20) ELSE 0
            r2 == IF Present(a.sma20) /\ Present(a.sma50)
                  THEN Rule2(a.sma20, a.sma50) ELSE 0
            r3 == IF Present(a.sma50) /\ Present(a.sma200)
                  THEN Rule3(a.sma50, a.sma200) ELSE 0
            r4 == IF Present(a.sma50) /\ Present(a.sma50_prev5)
                  THEN Rule4(a.sma50, a.sma50_prev5) ELSE 0
            r5 == IF Present(a.sma200) THEN Rule5(a.close, a.sma200) ELSE 0
        IN  /\ result = r1 + r2 + r3 + r4 + r5
            /\ (\A f \in {"sma20", "sma50", "sma200", "sma50_prev5"} : ~Present(a[f]))
                   => result = 0

\* C4 witness: a call with all four averages missing has returned 0.
C4_Witness ==
    /\ pc = "returned"
    /\ \A f \in {"sma20", "sma50", "sma200", "sma50_prev5"} : ~Present(call[f])
    /\ result = 0

(***************************************************************************)
(* fetch_prices: the download and its normalisation.  A frame is the       *)
(* sequence of its rows; the index value of a row is its date, a day       *)
(* number.                                                                 *)
(***************************************************************************)

\* df.empty
empty(frame) == Len(frame) = 0

\* df.rename(columns=str.lower): the provider's "Close" becomes "close".
rename_lower(frame) ==
    [i \in 1..Len(frame) |-> [date |-> frame[i].date, close |-> frame[i].Close]]

\* Faulty variant of duplicated_keep_last: keep="first", an earlier row has
\* the same date.
duplicated_keep_first(frame, i) ==
    \E j \in 1..(i - 1) : frame[j].date = frame[i].date

\* df.index.duplicated(keep="last")[i]: a later row has the same date.
duplicated_keep_last(frame, i) ==
    \E j \in (i + 1)..Len(frame) : frame[j].date = frame[i].date

RECURSIVE TakeKept(_, _, _)
\* The rows lo..hi of frame that are not duplicated, in their order.
TakeKept(frame, lo, hi) ==
    IF lo > hi THEN <<>>
    ELSE IF lo = hi
         THEN (IF duplicated_keep_last(frame, lo) THEN <<>> ELSE <<frame[lo]>>)
         ELSE LET mid == (lo + hi) \div 2
              IN  TakeKept(frame, lo, mid) \o TakeKept(frame, mid + 1, hi)

\* df[~df.index.duplicated(keep="last")]
drop_duplicated(frame) == TakeKept(frame, 1, Len(frame))

Dates(frame) == {frame[i].date : i \in 1..Len(frame)}

\* The first row of frame with date d.
RowOf(frame, d) == frame[CHOOSE i \in 1..Len(frame) : frame[i].date = d]

RECURSIVE RowsInRange(_, _, _, _)
\* The rows of frame with a date among ds within lo..hi, ascending by date,
\* one row for each date.
RowsInRange(frame, ds, lo, hi) ==
    IF lo > hi THEN <<>>
    ELSE IF lo = hi
         THEN (IF lo \in ds THEN <<RowOf(frame, lo)>> ELSE <<>>)
         ELSE LET mid == (lo + hi) \div 2
              IN  RowsInRange(frame, ds, lo, mid) \o RowsInRange(frame, ds, mid + 1, hi)

\* df.sort_index() of a frame without duplicated dates (fetch_prices sorts
\* after it has dropped them).
sort_index(frame) ==
    LET ds == Dates(frame)
    IN  IF ds = {} THEN <<>>
        ELSE RowsInRange(frame, ds,
                         CHOOSE d \in ds : \A e \in ds : d <= e,
                         CHOOSE d \in ds : \A e \in ds : d >= e)

\* fetch_prices, given what yf.download returned.
fetch_prices(download) ==
    IF empty(download)
    THEN Raise("No data")
    ELSE Return(sort_index(drop_duplicated(rename_lower(download))))

(***************************************************************************)
(* add_indicators                                                          *)
(***************************************************************************)

W20 == 20

W50 == 50

W200 == 200

RECURSIVE SumClose(_, _, _)
\* close[lo] + ... + close[hi]
SumClose(frame, lo, hi) ==
    IF lo > hi THEN 0
    ELSE IF lo = hi THEN frame[lo].close
    ELSE LET mid == (lo + hi) \div 2
         IN  SumClose(frame, lo, mid) + SumClose(frame, mid + 1, hi)

\* s.rolling(w, min_periods=min_periods).mean() at row i (1-based): the mean
\* of the rows of the window ending at i, missing when the window holds
\* fewer than min_periods rows.  The quotient is exact for the histories
\* below, whose closes are multiples of every window length.
rolling_mean(frame, i, w, min_periods) ==
    LET lo  == Max2(1, i - w + 1)
        cnt == i - lo + 1
    IN  IF cnt >= min_periods
        THEN SumClose(frame, lo, i) \div cnt
        ELSE NaN

\* Faulty variant of sma: min_periods=1, the mean of however many rows
\* there are.
sma_partial(frame, i, w) == rolling_mean(frame, i, w, 1)

\* s.rolling(w, min_periods=w).mean() at row i
sma(frame, i, w) == rolling_mean(frame, i, w, w)

add_indicators(frame) ==
    [i \in 1..Len(frame) |->
        [date   |-> frame[i].date,
         close  |-> frame[i].close,
         sma20  |-> sma(frame, i, W20),
         sma50  |-> sma(frame, i, W50),
         sma200 |-> sma(frame, i, W200)]]

(***************************************************************************)
(* Price histories used as inputs: n sessions on weekdays, closes of one   *)
(* of four shapes.  Closes are whole multiples of Unit price ticks, so the *)
(* mean of a full window of 20, 50 or 200 closes is a whole number of      *)
(* ticks.                                                                  *)
(***************************************************************************)

\* Every window length divides Unit.
Unit == W200

\* The longest history fetched.
MaxSessions == 206

\* Day number of the i-th session: five sessions a week.
SessionDate(i) == i + 2 * ((i - 1) \div 5)

Shapes == {"rising", "falling", "zigzag", "spike"}

\* Close of session i of a history of n sessions.  "spike" is flat but for
\* one high close four sessions before the latest.
ShapeClose(shape, i, n) ==
    Unit *
    CASE shape = "rising"  -> 10 + i
      [] shape = "falling" -> MaxSessions + 50 - i
      [] shape = "zigzag"  -> 100 + ((i * 7) % 13)
      [] shape = "spike"   -> IF i = n - 4 THEN 200 ELSE 100

\* What the provider returns for such a history, oldest session first.
History(n, shape) ==
    [i \in 1..n |-> [date |-> SessionDate(i), Close |-> ShapeClose(shape, i, n)]]

(***************************************************************************)
(* Specification of add_indicators as a function of a normalised frame.    *)
(***************************************************************************)

InitIndicators ==
    /\ pc = "called"
    /\ \E n \in 1..MaxSessions, shape \in Shapes :
          call = rename_lower(History(n, shape))
    /\ result = Pending
    /\ IdleMain

CallAddIndicators ==
    /\ pc = "called"
    /\ result' = add_indicators(call)
    /\ pc' = "returned"
    /\ UNCHANGED <<call, mainVars>>

SpecIndicators == InitIndicators /\ [][CallAddIndicators]_vars

\* The indicator column of a row for window w.
C5_Column(row, w) ==
    CASE w = 20 -> row.sma20 [] w = 50 -> row.sma50 [] w = 200 -> row.sma200

RECURSIVE C5_SumBack(_, _, _)
\* The sum of the k closes of the price series that end at position i.
C5_SumBack(series, i, k) ==
    IF k = 0 THEN 0 ELSE series[i].close + C5_SumBack(series, i - 1, k - 1)

\* C5: for each window w of 20, 50, 200 and each 0-indexed position i, the
\* indicator is present iff i >= w - 1, and when present it is the mean of
\* the close over exactly the w positions i-w+1..i (w times the value is
\* the sum of those w closes); the frame keeps one row for each session.
C5_FullWindowMean ==
    pc = "returned" =>
        /\ Len(result) = Len(call)
        /\ \A w \in {20, 50, 200} : \A p \in 1..Len(result) :
              LET i == p - 1
                  v == C5_Column(result[p], w)
              IN  /\ Present(v) <=> i >= w - 1
                  /\ Present(v) => v * w = C5_SumBack(call, p, w)

\* C5 witness: a series of exactly 200 sessions whose sma200 is present at
\* the last position only, while sma50 is present from position 49 on.
C5_Witness ==
    /\ pc = "returned"
    /\ Len(result) = 200
    /\ Present(result[200].sma200)
    /\ \A p \in 1..199 : ~Present(result[p].sma200)
    /\ Present(result[50].sma50)
    /\ ~Present(result[49].sma50)

(***************************************************************************)
(* Specification of fetch_prices as a function of what yf.download         *)
(* returned: every sequence of at most MaxRaw rows, in any order, with any *)
(* repetition of dates.                                                    *)
(***************************************************************************)

\* Most rows of a download.
MaxRaw == 3

\* Latest date of a download.
MaxDate == 3

\* Closes of a download: two, so that a revision of a date is visible.
RawCloses == {7, 9}

RawRows == [date : 1..MaxDate, Close : RawCloses]

InitFetchPrices ==
    /\ pc = "called"
    /\ \E n \in 0..MaxRaw : call \in [1..n -> RawRows]
    /\ result = Pending
    /\ IdleMain

CallFetchPrices ==
    /\ pc = "called"
    /\ result' = fetch_prices(call)
    /\ pc' = "returned"
    /\ UNCHANGED <<call, mainVars>>

SpecFetchPrices == InitFetchPrices /\ [][CallFetchPrices]_vars

\* The position of the last observation supplied for date d.
C7_LastSupplied(raw, d) ==
    CHOOSE i \in 1..Len(raw) :
        /\ raw[i].date = d
        /\ \A j \in (i + 1)..Len(raw) : raw[j].date # d

\* C7: fetch_prices fails on an empty download; on any other it returns a
\* series whose dates are strictly increasing, that has exactly one entry
\* for each date of the download, and whose close at a date is that of the
\* last observation supplied for the date.
C7_Normalized ==
    pc = "returned" =>
        IF call = <<>>
        THEN result.raised
        ELSE /\ ~result.raised
             /\ LET series == result.value
                 IN  /\ \A k \in 1..(Len(series) - 1) :
                           series[k].date < series[k + 1].date
                     /\ {series[k].date : k \in 1..Len(series)}
                           = {call[i].date : i \in 1..Len(call)}
                     /\ \A k \in 1..Len(series) :
                           series[k].close
                             = call[C7_LastSupplied(call, series[k].date)].Close

\* C7 witness: an unordered download that gives one date twice with
\* different closes; the series has two entries and keeps the later close.
C7_Witness ==
    /\ pc = "returned"
    /\ call = <<[date |-> 2, Close |-> 7], [date |-> 1, Close |-> 9],
                [date |-> 2, Close |-> 9]>>
    /\ ~result.raised
    /\ result.value = <<[date |-> 1, close |-> 9], [date |-> 2, close |-> 9]>>

(***************************************************************************)
(* latest_row and score_from_df                                            *)
(***************************************************************************)

\* _rnd of latest_row: None for a missing value, else round(float(x), 6),
\* which leaves a whole number as it is.
rnd(x) == IF x = NaN THEN None ELSE x

latest_row(frame, ticker) ==
    LET last == frame[Len(frame)]
    IN  [ticker |-> ticker,
         date   |-> last.date,
         close  |-> rnd(last.close),
         sma20  |-> rnd(last.sma20),
         sma50  |-> rnd(last.sma50),
         sma200 |-> rnd(last.sma200)]

\* The shortest history that is scored: the 205 of "len(df) < 205".
MinHistory == 205

\* iloc[-k]: the k-th row from the end.
iloc_neg(frame, k) == frame[Len(frame) - k + 1]

\* Faulty variant of prev5_row: iloc[-5], four sessions before the latest.
prev5_row_off_by_one(frame) == iloc_neg(frame, 5)

\* The row whose sma50 is the slope reference: df["sma50"].iloc[-6].
prev5_row(frame) == iloc_neg(frame, 6)

\* Faulty variant of too_short: len(df) <= 205.
too_short_inclusive(frame) == Len(frame) <= MinHistory

\* len(df) < 205
too_short(frame) == Len(frame) < MinHistory

\* The record keeps round(x, 6) of each value, or None for a missing one;
\* rounding leaves a whole number as it is.
score_from_df(ticker, frame) ==
    IF too_short(frame)
    THEN Raise("Not enough history")
    ELSE LET close       == iloc_neg(frame, 1).close
             sma20       == iloc_neg(frame, 1).sma20
             sma50       == iloc_neg(frame, 1).sma50
             sma200      == iloc_neg(frame, 1).sma200
             sma50_prev5 == prev5_row(frame).sma50
             s           == score_row(close, sma20, sma50, sma200, sma50_prev5)
         IN  Return([ticker |-> ticker,
                     date   |-> iloc_neg(frame, 1).date,
                     close  |-> close,
                     sma20  |-> IF sma20 = NaN THEN None ELSE sma20,
                     sma50  |-> IF sma50 = NaN THEN None ELSE sma50,
                     sma200 |-> IF sma200 = NaN THEN None ELSE sma200,
                     score  |-> s])

(***************************************************************************)
(* Specification of score_from_df as a function of a frame with its        *)
(* indicators: every history of 1 to MaxSessions sessions, in each shape.  *)
(***************************************************************************)

InitScoreFromDf ==
    /\ pc = "called"
    /\ \E n \in 1..MaxSessions, shape \in Shapes :
          call = [ticker |-> 1,
                  df     |-> add_indicators(rename_lower(History(n, shape)))]
    /\ result = Pending
    /\ IdleMain

CallScoreFromDf ==
    /\ pc = "called"
    /\ result' = score_from_df(call.ticker, call.df)
    /\ pc' = "returned"
    /\ UNCHANGED <<call, mainVars>>

SpecScoreFromDf == InitScoreFromDf /\ [][CallScoreFromDf]_vars

\* C6: score_from_df raises the insufficient-history error, returning no
\* score record, for every series of fewer than 205 sessions, and returns a
\* score record of the ticker for every series of 205 sessions or more.
C6_HistoryThreshold ==
    pc = "returned" =>
        /\ Len(call.df) < 205 =>
              result.raised /\ result.msg = "Not enough history"
        /\ Len(call.df) >= 205 =>
              /\ ~result.raised
              /\ result.value.ticker = call.ticker
              /\ result.value.date = call.df[Len(call.df)].date
              /\ result.value.score \in -20..20

\* C6 witness: a series of exactly 205 sessions has been scored.
C6_Witness ==
    /\ pc = "returned"
    /\ Len(call.df) = 205
    /\ ~result.raised
    /\ result.value.score = 20

(***************************************************************************)
(* main: the loop over the tickers and the writing of the reports.         *)
(* Errors of the file system are not modelled: plotting and writing        *)
(* succeed.                                                                *)
(***************************************************************************)

\* Most tickers in config.yaml.
NumTickers == 3

\* len(df) >= 20: the shortest history that is plotted.
MinPlot == 20

\* The provider's rows for a history whose latest session it revised: the
\* latest date comes first and twice, the superseded row before the revised
\* one, and the older sessions follow in date order.
Download(n, shape) ==
    LET h == History(n, shape)
    IN  <<[date |-> h[n].date, Close |-> h[n].Close + Unit], h[n]>>
            \o SubSeq(h, 1, n - 1)

\* What yf.download may return for a ticker: nothing, or a history just
\* below, at or above each threshold of main.
Downloads ==
    {<<>>}
    \cup {Download(n, shape) :
             n \in {MinPlot - 1, MinPlot, MinHistory - 1, MinHistory, MaxSessions},
             shape \in Shapes}

Init ==
    /\ pc = "start"
    /\ \E k \in 0..NumTickers : tickers = [i \in 1..k |-> i]
    /\ idx = 0
    /\ df = <<>>
    /\ latest_rows = <<>>
    /\ score_rows = <<>>
    /\ warns = <<>>
    /\ artifacts = {}
    /\ call = <<>>
    /\ result = Pending

\* load_config and the check of the ticker list (lines 246-261).
Start ==
    /\ pc = "start"
    /\ pc' = IF tickers = <<>> THEN "exit_no_tickers" ELSE "loop"
    /\ UNCHANGED <<call, result, mainVars>>

\* Lines 268-269 for what yf.download returned: the frame with its
\* indicators, or the error fetch_prices raised.
fetch_and_indicators(download) ==
    LET prices == fetch_prices(download)
    IN  IF prices.raised THEN prices ELSE Return(add_indicators(prices.value))

\* The outcomes of lines 268-269 over the downloads.
Fetched == {fetch_and_indicators(download) : download \in Downloads}

\* The loop body after line 269, for the frame with its indicators: chart
\* and latest values, then scoring under its own try.
ProcessFrame(t, frame) ==
    LET plots  == Len(frame) >= MinPlot
        scored == score_from_df(t, frame)
        w1     == IF plots THEN warns
                  ELSE Append(warns, <<t, "not enough history to plot">>)
    IN  /\ df' = frame
        /\ artifacts' = IF plots THEN artifacts \cup {<<"chart", t>>} ELSE artifacts
        /\ latest_rows' = IF plots THEN Append(latest_rows, latest_row(frame, t))
                          ELSE latest_rows
        /\ IF scored.raised
           THEN /\ warns' = Append(w1, <<t, "scoring skipped">>)
                /\ UNCHANGED score_rows
           ELSE /\ warns' = w1
                /\ score_rows' = Append(score_rows, scored.value)
        /\ idx' = idx + 1
        /\ UNCHANGED pc

\* Faulty variant of HandleError: the error of one ticker is printed and
\* ends the loop over the tickers.
HandleError_abort(t, msg) ==
    /\ warns' = Append(warns, <<t, msg>>)
    /\ idx' = Len(tickers)
    /\ UNCHANGED <<pc, df, latest_rows, score_rows, artifacts>>

\* "except Exception as e" of the loop body (lines 284-285): the warning is
\* printed and the loop goes on.
HandleError(t, msg) ==
    /\ warns' = Append(warns, <<t, msg>>)
    /\ idx' = idx + 1
    /\ UNCHANGED <<pc, df, latest_rows, score_rows, artifacts>>

\* One iteration of "for t in tickers".
Iterate ==
    /\ pc = "loop"
    /\ idx < Len(tickers)
    /\ \E fetched \in Fetched :
          LET t == tickers[idx + 1]
          IN  IF fetched.raised
              THEN HandleError(t, fetched.msg)
              ELSE ProcessFrame(t, fetched.value)
    /\ UNCHANGED <<call, result, tickers>>

\* Faulty variant of no_outputs: "or" for "and".
no_outputs_either == latest_rows = <<>> \/ score_rows = <<>>

\* "not latest_rows and not score_rows" (line 287)
no_outputs == latest_rows = <<>> /\ score_rows = <<>>

\* After the loop: the exit when nothing was produced, else the reports.
Finish ==
    /\ pc = "loop"
    /\ idx = Len(tickers)
    /\ IF no_outputs
       THEN /\ pc' = "exit_no_outputs"
            /\ UNCHANGED artifacts
       ELSE /\ pc' = "done"
            /\ artifacts' = artifacts
                 \cup (IF latest_rows # <<>> THEN {<<"latest_csv", 0>>} ELSE {})
                 \cup (IF score_rows # <<>>
                       THEN {<<"scores_csv", 0>>, <<"barometer", 0>>} ELSE {})
                 \cup {<<"index_html", 0>>}
    /\ UNCHANGED <<call, result, tickers, idx, df, latest_rows, score_rows, warns>>

Next == Start \/ Iterate \/ Finish

Spec == Init /\ [][Next]_vars

(***************************************************************************)
(* Properties of the run.                                                  *)
(***************************************************************************)

\* The run has ended, by an exit or by writing the reports.
Ended == pc \in {"exit_no_tickers", "exit_no_outputs", "done"}

\* The run has ended by SystemExit.
Fatal == pc \in {"exit_no_tickers", "exit_no_outputs"}

Scored(t) == \E k \in 1..Len(score_rows) : score_rows[k].ticker = t

Warned(t, reason) == \E k \in 1..Len(warns) : warns[k] = <<t, reason>>

\* A failure of ticker t was printed: its fetch or its scoring.
Failed(t) == Warned(t, "No data") \/ Warned(t, "scoring skipped")

\* The ticker of the last iteration, and whether df is its frame.
LastTicker == tickers[idx]

LastFetched == idx > 0 /\ ~Warned(LastTicker, "No data")

\* C8: every ticker the loop has passed either has a score record or has a
\* printed failure, never both; a failure of one ticker leaves the others'
\* records alone and the loop goes on to the end of the list, so the run
\* ends only after every ticker was handled; and a run of 3 tickers in
\* which one fetch fails and nothing else does ends with 2 score records
\* and 1 printed failure and is not fatal.
C8_FailureIsolated ==
    /\ \A k \in 1..Len(tickers) :
          /\ k <= idx => (Scored(tickers[k]) <=> ~Failed(tickers[k]))
          /\ k > idx => ~Scored(tickers[k]) /\ ~Failed(tickers[k])
    /\ Len(score_rows) + Cardinality({t \in 1..Len(tickers) : Failed(t)}) = idx
    /\ Ended => idx = Len(tickers)
    /\ (/\ Ended
        /\ Len(tickers) = 3
        /\ Cardinality({k \in 1..Len(warns) : warns[k][2] = "No data"}) = 1
        /\ \A k \in 1..Len(warns) : warns[k][2] = "No data")
       => /\ Len(score_rows) = 2
          /\ Len(warns) = 1
          /\ pc = "done"

\* C8 witness: the run of 3 tickers has ended; the fetch of the second
\* failed and the first and third were scored.
C8_Witness ==
    /\ pc = "done"
    /\ Len(tickers) = 3
    /\ warns = <<(<<2, "No data">>)>>
    /\ Len(score_rows) = 2
    /\ score_rows[1].ticker = 1
    /\ score_rows[2].ticker = 3

\* C9 as stated: the run is fatal exactly when no ticker produced a score
\* record, and a fatal run leaves no result artifact.
C9_FatalIffNoScore ==
    Ended =>
        /\ Fatal <=> score_rows = <<>>
        /\ Fatal => artifacts = {}

\* C9 amended: the run is fatal exactly when no ticker produced a score
\* record and none produced a latest-values row, and a fatal run leaves no
\* result artifact.
C9_FatalIffNoOutput ==
    Ended =>
        /\ Fatal <=> (score_rows = <<>> /\ latest_rows = <<>>)
        /\ Fatal => artifacts = {}

\* C9 witness: a run of 3 tickers has ended fatally; one fetch failed and
\* one ticker had too few sessions to plot.
C9_Witness ==
    /\ pc = "exit_no_outputs"
    /\ Len(tickers) = 3
    /\ \E t \in 1..3 : Warned(t, "No data")
    /\ \E t \in 1..3 : Warned(t, "not enough history to plot")
    /\ artifacts = {}

\* C10: when a ticker is scored, its series has n >= 205 sessions; the
\* record carries the close and the three averages of the latest session
\* (position n-1) and its score is score_row of these and of the sma50 at
\* position n-6; that position is >= 49, and the reference and the three
\* latest averages are all present.
C10_ScorerInputs ==
    (LastFetched /\ Scored(LastTicker)) =>
        LET n      == Len(df)
            latest == df[n]
            ref    == df[n - 5]
            rec    == score_rows[Len(score_rows)]
        IN  /\ n >= 205
            /\ n - 6 >= 49
            /\ Present(latest.sma20) /\ Present(latest.sma50)
            /\ Present(latest.sma200) /\ Present(ref.sma50)
            /\ rec.ticker = LastTicker
            /\ rec.close = latest.close
            /\ rec.sma20 = latest.sma20
            /\ rec.sma50 = latest.sma50
            /\ rec.sma200 = latest.sma200
            /\ rec.score = score_row(latest.close, latest.sma20, latest.sma50,
                                      latest.sma200, ref.sma50)

\* C10 witness: a scored series of 206 sessions whose sma50 at position n-6
\* is below the latest sma50 while the one at position n-5 is not, so the
\* momentum rule depends on the reference being exactly 5 sessions back.
C10_Witness ==
    /\ LastFetched
    /\ Scored(LastTicker)
    /\ Len(df) = 206
    /\ df[201].sma50 < df[206].sma50
    /\ df[202].sma50 >= df[206].sma50
    /\ score_rows[Len(score_rows)].score = 8

====
